---- MODULE Spec2Model ----
(***************************************************************************)
(* A model of build.py: one invocation of the script, from the command     *)
(* line to its end.  The external processes (git, cmake, ninja, python,    *)
(* 7z) and the file system are the environment: every process returns an   *)
(* exit code chosen from ExitCodes, and the files the script reads hold    *)
(* any content of the input sets below.                                    *)
(*                                                                         *)
(* pc is the position of the script:                                       *)
(*   "parse_args"  before parse_args()                                     *)
(*   "main"        parse_args() returned, main(args) is about to run       *)
(*   "pull" / "build" / "package"   at the head of the for loop            *)
(*   "git" / "cmake" / "ninja" / "bootstrap" / "7z"                        *)
(*                 the named external process is about to be run           *)
(*   "done"        the script ended normally                               *)
(*   "usage_error" argparse rejected the command line (exit status 2)      *)
(*   "error"       an exception left main (traceback, exit status 1)       *)
(***************************************************************************)
EXTENDS Integers, Sequences, FiniteSets, TLC

VARIABLES argv, pc, args, fs, tmpfiles, deps, i, plan, calls, log,
          manifest, artifacts, listfile

vars == <<argv, pc, args, fs, tmpfiles, deps, i, plan, calls, log,
          manifest, artifacts, listfile>>

(***************************************************************************)
(* Bounds and input sets.                                                  *)
(***************************************************************************)
MaxTools == 2     \* tool names on the command line
MaxConfigs == 2   \* --config options on the command line
MaxExit == 1      \* exit codes are 0..MaxExit
MaxLines == 3     \* lines of install_manifest.txt

ExitCodes == 0..MaxExit

Commands == {"pull", "build", "package"}

\* Spellings a user may type; "gcc" is registered under no spelling.
Names == {"ninja", "Ninja", "llvm", "LLVM", "gcc"}

ConfigNames == {"Debug", "Release"}

\* A line of text is a sequence of characters.  "R" stands for the absolute
\* prefix of this_dir (with its separator), "a" for a character of a file
\* name and " " for white space.  The line terminator is left out: strip()
\* removes it.
Lines == { <<>>, <<" ">>, <<"R", "a">>, <<" ", "R", "a", " ">>, <<"a">> }

SeqsUpTo(S, n) == UNION {[1..k -> S] : k \in 0..n}

None == "None"
ValueError == "ValueError"
FileNotFoundError == "FileNotFoundError"
Raise == "raise"
Return == "return"

(***************************************************************************)
(* str.lower, on the spellings of Names and on the class names.            *)
(***************************************************************************)
lower(s) ==
    CASE s \in {"ninja", "Ninja"} -> "ninja"
      [] s \in {"llvm", "LLVM"} -> "llvm"
      [] s = "gcc" -> "gcc"

(***************************************************************************)
(* The registry.  A dict is a sequence of <<key, value>> pairs in          *)
(* insertion order; tool(cls) stores cls under its lower-cased name.       *)
(***************************************************************************)
dict_set(d, k, v) ==
    IF \E n \in 1..Len(d) : d[n][1] = k
    THEN [n \in 1..Len(d) |-> IF d[n][1] = k THEN <<k, v>> ELSE d[n]]
    ELSE Append(d, <<k, v>>)

dict_keys(d) == {d[n][1] : n \in 1..Len(d)}

dict_get(d, k) ==
    IF k \in dict_keys(d)
    THEN (CHOOSE p \in {d[n] : n \in 1..Len(d)} : p[1] = k)[2]
    ELSE None

dict_values(d) == [n \in 1..Len(d) |-> d[n][2]]

tool(registry, cls) == dict_set(registry, lower(cls), cls)

\* The decorators run at load time, in the order of the class definitions.
tools == tool(tool(<<>>, "Ninja"), "LLVM")

(***************************************************************************)
(* parse_args.                                                             *)
(***************************************************************************)
\* A mutant: the lookup forgets to raise and hands back None.
lookup_tool_returns_none(name) == dict_get(tools, name)

\* tools.get(name); ValueError when there is no such key.
lookup_tool(name) ==
    IF dict_get(tools, name) = None THEN ValueError ELSE dict_get(tools, name)

\* argparse's "append" action: each value is appended to a copy of what the
\* destination holds, which is the default at first.
append_action(default, values) == default \o values

\* The names of the command line, each through type=lookup_tool.
resolved(av) == [k \in 1..Len(av.tools) |-> lookup_tool(av.tools[k])]

\* argparse rejects the command line when the type function raised
\* ValueError for one of the names: a usage message and exit status 2.
parse_error(av) == \E k \in 1..Len(av.tools) : resolved(av)[k] = ValueError

\* The namespace before parsing, and the one parse_args returns: the tools
\* default to every registered class, the configs start from the default.
NoArgs == [command |-> None, tools |-> <<>>, configs |-> <<>>]

parse_args(av) ==
    [command |-> av.command,
     tools   |-> IF av.tools = <<>> THEN dict_values(tools) ELSE resolved(av),
     configs |-> IF av.command = "build"
                 THEN append_action(<<"Release">>, av.configs)
                 ELSE <<>>]

(***************************************************************************)
(* The descriptors.                                                        *)
(***************************************************************************)
Classes == {"Ninja", "LLVM"}

dir_of(cls) == IF cls = "Ninja" THEN "ninja" ELSE "llvm"
source_dir(cls) == IF cls = "Ninja" THEN "ninja/src" ELSE "llvm/src"
build_dir(cls) == IF cls = "Ninja" THEN "ninja" ELSE "llvm/build"
url_of(cls) ==
    IF cls = "Ninja" THEN "https://github.com/ninja-build/ninja.git"
    ELSE "https://github.com/llvm/llvm-project.git"
branch_of(cls) == IF cls = "Ninja" THEN "master" ELSE "main"
dest_of(cls) == IF cls = "Ninja" THEN "Ninja.7z" ELSE "LLVM.7z"

\* f"origin/{branch}"
origin(branch) == IF branch = "master" THEN "origin/master" ELSE "origin/main"

\* A mutant: the descriptors come in the order of the command line.
dependencies_in_list_order(include) == include

\* dependencies(this_dir, include): Ninja first, then LLVM, each when included.
dependencies(include) ==
    LET has(cls) == \E k \in 1..Len(include) : include[k] = cls
    IN  (IF has("Ninja") THEN <<"Ninja">> ELSE <<>>)
        \o (IF has("LLVM") THEN <<"LLVM">> ELSE <<>>)

\* The directories the constructors of deps make (dir.mkdir(exist_ok=True)).
constructed(ds) == {dir_of(ds[k]) : k \in 1..Len(ds)}

(***************************************************************************)
(* The process wrappers: what each does with the exit code of its process. *)
(***************************************************************************)
\* A mutant: the exit code of git is dropped.
git_unchecked(rc) == Return

git(rc) == IF rc # 0 THEN Raise ELSE Return
cmake_configure(rc) == IF rc # 0 THEN Raise ELSE Return
ninja(rc) == IF rc # 0 THEN Raise ELSE Return
\* Ninja.build and package call cmd(...) and drop what it returns.
Ninja_build(rc) == Return
package_7z(rc) == Return

\* A mutant: the clone is taken whether or not the directory exists.
pull_git_dependency_always_clone(exists, dir, url, branch) ==
    << [args |-> <<"clone", url, dir, "-b", branch>>, cwd |-> None] >>

\* The git commands of pull_git_dependency, in order.
pull_git_dependency(exists, dir, url, branch) ==
    IF exists
    THEN << [args |-> <<"fetch">>, cwd |-> dir],
            [args |-> <<"checkout", branch>>, cwd |-> dir],
            [args |-> <<"merge", origin(branch), "--ff-only">>, cwd |-> dir] >>
    ELSE << [args |-> <<"clone", url, dir, "-b", branch>>, cwd |-> None] >>

(***************************************************************************)
(* Artifacts.                                                              *)
(***************************************************************************)
RECURSIVE lstrip(_)
lstrip(l) == IF l # <<>> /\ Head(l) = " " THEN lstrip(Tail(l)) ELSE l

RECURSIVE rstrip(_)
rstrip(l) ==
    IF l # <<>> /\ l[Len(l)] = " " THEN rstrip(SubSeq(l, 1, Len(l) - 1)) ELSE l

\* str.strip()
strip(l) == rstrip(lstrip(l))

\* pathlib.Path(s): the empty string is the path "."
Path(s) == IF s = <<>> THEN <<".">> ELSE s

\* p.relative_to(this_dir) raises ValueError unless p lies under this_dir.
is_relative_to(p) == Head(p) = "R"

\* p.relative_to(this_dir), for a path under this_dir.
relative_to(p) == IF Len(p) = 1 THEN <<".">> ELSE Tail(p)

\* Ninja.artifacts: build_dir/"ninja.exe", a path under this_dir.
Ninja_artifacts == << <<"R", "ninja/ninja.exe">> >>

\* LLVM.artifacts on a manifest that opens: one path for every line.
LLVM_artifacts(m) == [k \in 1..Len(m) |-> Path(strip(m[k]))]

\* install_manifest.txt: missing (open raises FileNotFoundError), or its lines.
NoManifest == [exists |-> FALSE, lines |-> <<>>]

Manifests ==
    {[exists |-> TRUE, lines |-> l] : l \in SeqsUpTo(Lines, MaxLines)}
    \cup {NoManifest}

\* What dep.artifacts() reads: install_manifest.txt for LLVM, nothing for Ninja.
manifests_of(cls) == IF cls = "LLVM" THEN Manifests ELSE {NoManifest}

\* dep.artifacts() raises on its first step.
artifacts_raises(cls, m) == cls = "LLVM" /\ ~m.exists

artifacts_of(cls, m) ==
    IF cls = "Ninja" THEN Ninja_artifacts ELSE LLVM_artifacts(m.lines)

\* The index of the first artifact whose relative_to raises, 0 when none does.
first_bad(arts) ==
    IF \E k \in 1..Len(arts) : ~is_relative_to(arts[k])
    THEN CHOOSE k \in 1..Len(arts) :
            /\ ~is_relative_to(arts[k])
            /\ \A j \in 1..(k - 1) : is_relative_to(arts[j])
    ELSE 0

(***************************************************************************)
(* tempfile.NamedTemporaryFile(delete_on_close=False), delete=True.        *)
(***************************************************************************)
TmpName == "tmp"

NamedTemporaryFile(files) == files \cup {TmpName}

\* A mutant: delete_on_close is left at its default, True.
listfile_close_deletes(files) == files \ {TmpName}

\* listfile.close(): the file stays, as delete_on_close is False.
listfile_close(files) == files

\* Leaving the with block deletes the file, by return or by exception.
listfile_exit(files) == files \ {TmpName}

(***************************************************************************)
(* cmake_var_def_args over the variables LLVM.configure passes.            *)
(***************************************************************************)
LLVM_vars ==
    << <<"CMAKE_C_COMPILER", "str", "clang-cl">>,
       <<"CMAKE_CXX_COMPILER", "str", "clang-cl">>,
       <<"CMAKE_INSTALL_PREFIX", "Path", "llvm">>,
       <<"LLVM_OPTIMIZED_TABLEGEN", "bool", "True">>,
       <<"LLVM_ENABLE_LLD", "bool", "True">>,
       <<"LLVM_TARGETS_TO_BUILD", "str", "X86;AArch64;NVPTX">>,
       <<"LLVM_ENABLE_PROJECTS", "str", "clang;clang-tools-extra;lld">>,
       <<"LLVM_ENABLE_BINDINGS", "bool", "False">>,
       <<"LLVM_INCLUDE_TOOLS", "bool", "True">>,
       <<"LLVM_INCLUDE_TESTS", "bool", "False">>,
       <<"LLVM_INCLUDE_BENCHMARKS", "bool", "False">>,
       <<"LLVM_INCLUDE_EXAMPLES", "bool", "False">>,
       <<"LLVM_INCLUDE_DOCS", "bool", "False">>,
       <<"CLANG_INCLUDE_TESTS", "bool", "False">>,
       <<"CLANG_INCLUDE_DOCS", "bool", "False">> >>

\* -D<name>:PATH=<value> for a Path, -D<name>=<value> otherwise.
cmake_var_def_args(vs) ==
    [k \in 1..Len(vs) |->
        [name |-> vs[k][1], path |-> vs[k][2] = "Path", value |-> vs[k][3]]]

(***************************************************************************)
(* The trace of one run: the lifecycle calls and the processes run.        *)
(***************************************************************************)
Call(dep, method, configs, exists) ==
    [dep |-> dep, method |-> method, configs |-> configs, dir_exists |-> exists]

\* cmd(prog, *args, cwd=cwd) returned rc, during the call numbered call.
Cmd(prog, as, defs, cwd, rc, call) ==
    [prog |-> prog, args |-> as, defs |-> defs, cwd |-> cwd, rc |-> rc,
     call |-> call]

(***************************************************************************)
(* The initial states: any command line, any state of the directory.       *)
(***************************************************************************)
FsInit == SUBSET {"ninja/src", "llvm/src", "Ninja.7z", "LLVM.7z"}

\* A source directory lies in its tool's directory.
with_parents(S) ==
    S \cup (IF "ninja/src" \in S THEN {"ninja"} ELSE {})
      \cup (IF "llvm/src" \in S THEN {"llvm"} ELSE {})

Init ==
    /\ argv \in [command : Commands,
                 tools : SeqsUpTo(Names, MaxTools),
                 configs : SeqsUpTo(ConfigNames, MaxConfigs)]
    /\ argv.command # "build" => argv.configs = <<>>
    /\ pc = "parse_args"
    /\ args = NoArgs
    /\ fs \in {with_parents(S) : S \in FsInit}
    /\ tmpfiles = {}
    /\ deps = <<>>
    /\ i = 0
    /\ plan = <<>>
    /\ calls = <<>>
    /\ log = <<>>
    /\ manifest = NoManifest
    /\ artifacts = <<>>
    /\ listfile = <<>>

(***************************************************************************)
(* The steps.                                                              *)
(***************************************************************************)
\* args = parse_args(): the namespace, or argparse's exit.
ParseArgs ==
    /\ pc = "parse_args"
    /\ IF parse_error(argv)
       THEN pc' = "usage_error" /\ args' = args
       ELSE pc' = "main" /\ args' = parse_args(argv)
    /\ UNCHANGED <<argv, fs, tmpfiles, deps, i, plan, calls, log, manifest,
                   artifacts, listfile>>

\* main(args), up to the match: the descriptors are constructed.
Main ==
    /\ pc = "main"
    /\ deps' = dependencies(args.tools)
    /\ fs' = fs \cup constructed(deps')
    /\ i' = 1
    /\ pc' = args.command
    /\ UNCHANGED <<argv, args, tmpfiles, plan, calls, log, manifest,
                   artifacts, listfile>>

\* pull(deps): the loop head; dep.pull() enters pull_git_dependency.
Pull ==
    /\ pc = "pull"
    /\ IF i > Len(deps)
       THEN pc' = "done" /\ UNCHANGED <<calls, plan>>
       ELSE LET dep == deps[i]
                exists == source_dir(dep) \in fs
            IN  /\ calls' = Append(calls, Call(dep, "pull", <<>>, exists))
                /\ plan' = pull_git_dependency(exists, source_dir(dep),
                                               url_of(dep), branch_of(dep))
                /\ pc' = "git"
    /\ UNCHANGED <<argv, args, fs, tmpfiles, deps, i, log, manifest,
                   artifacts, listfile>>

\* git(...): the next git command of pull_git_dependency runs and returns.
Git ==
    /\ pc = "git"
    /\ \E rc \in ExitCodes :
        LET c == Head(plan)
        IN  /\ log' = Append(log, Cmd("git", c.args, <<>>, c.cwd, rc, Len(calls)))
            /\ fs' = IF c.args[1] = "clone" /\ rc = 0
                     THEN fs \cup {source_dir(deps[i])} ELSE fs
            /\ IF git(rc) = Raise
               THEN pc' = "error" /\ UNCHANGED <<plan, i>>
               ELSE IF Tail(plan) = <<>>
                    THEN pc' = "pull" /\ i' = i + 1 /\ plan' = <<>>
                    ELSE pc' = "git" /\ plan' = Tail(plan) /\ i' = i
    /\ UNCHANGED <<argv, args, tmpfiles, deps, calls, manifest, artifacts,
                   listfile>>

\* build(deps, configs): the loop head; dep.configure(configs), and for Ninja,
\* whose configure does nothing, dep.build(configs) up to its process.
Build ==
    /\ pc = "build"
    /\ IF i > Len(deps)
       THEN pc' = "done" /\ UNCHANGED <<calls, fs>>
       ELSE LET dep == deps[i]
                conf == Call(dep, "configure", args.configs, FALSE)
            IN  IF dep = "Ninja"
                THEN /\ calls' = calls \o
                          <<conf, Call(dep, "build", args.configs, FALSE)>>
                     /\ fs' = fs
                     /\ pc' = "bootstrap"
                ELSE /\ calls' = Append(calls, conf)
                     /\ fs' = fs \cup {build_dir(dep)}
                     /\ pc' = "cmake"
    /\ UNCHANGED <<argv, args, tmpfiles, deps, i, plan, log, manifest,
                   artifacts, listfile>>

\* cmake_configure(...) runs cmake; then LLVM.build is entered.
CMake ==
    /\ pc = "cmake"
    /\ \E rc \in ExitCodes :
        /\ log' = Append(log,
                Cmd("cmake",
                    <<"-G", "Ninja", "-DCMAKE_BUILD_TYPE=Release", "llvm/src/llvm">>,
                    cmake_var_def_args(LLVM_vars), build_dir(deps[i]), rc,
                    Len(calls)))
        /\ IF cmake_configure(rc) = Raise
           THEN pc' = "error" /\ calls' = calls
           ELSE /\ pc' = "ninja"
                /\ calls' = Append(calls,
                                Call(deps[i], "build", args.configs, FALSE))
    /\ UNCHANGED <<argv, args, fs, tmpfiles, deps, i, plan, manifest,
                   artifacts, listfile>>

\* ninja(build_dir, "install")
NinjaInstall ==
    /\ pc = "ninja"
    /\ \E rc \in ExitCodes :
        /\ log' = Append(log, Cmd("ninja", <<"install">>, <<>>,
                                  build_dir(deps[i]), rc, Len(calls)))
        /\ IF ninja(rc) = Raise
           THEN pc' = "error" /\ i' = i
           ELSE pc' = "build" /\ i' = i + 1
    /\ UNCHANGED <<argv, args, fs, tmpfiles, deps, plan, calls, manifest,
                   artifacts, listfile>>

\* Ninja.build: cmd("python", source_dir/"configure.py", "--bootstrap")
Bootstrap ==
    /\ pc = "bootstrap"
    /\ \E rc \in ExitCodes :
        /\ log' = Append(log, Cmd("python",
                                  <<"ninja/src/configure.py", "--bootstrap">>,
                                  <<>>, build_dir(deps[i]), rc, Len(calls)))
        /\ IF Ninja_build(rc) = Raise
           THEN pc' = "error" /\ i' = i
           ELSE pc' = "build" /\ i' = i + 1
    /\ UNCHANGED <<argv, args, fs, tmpfiles, deps, plan, calls, manifest,
                   artifacts, listfile>>

\* package(this_dir, deps): the loop head, up to the archiver; an old archive
\* is removed, the list file is made, written and closed.  An exception of
\* artifacts() or of relative_to leaves the with block.
Package ==
    /\ pc = "package"
    /\ IF i > Len(deps)
       THEN pc' = "done"
            /\ UNCHANGED <<fs, tmpfiles, calls, manifest, artifacts, listfile>>
       ELSE LET dep == deps[i] IN
            \E m \in manifests_of(dep) :
              LET arts == artifacts_of(dep, m)
                  bad == first_bad(arts)
                  good == IF bad = 0 THEN arts ELSE SubSeq(arts, 1, bad - 1)
                  opened == NamedTemporaryFile(tmpfiles)
              IN  /\ fs' = fs \ {dest_of(dep)}
                  /\ calls' = Append(calls, Call(dep, "artifacts", <<>>, FALSE))
                  /\ manifest' = m
                  /\ artifacts' = IF bad = 0 THEN arts ELSE SubSeq(arts, 1, bad)
                  /\ listfile' = [k \in 1..Len(good) |-> relative_to(good[k])]
                  /\ IF artifacts_raises(dep, m) \/ bad # 0
                     THEN pc' = "error" /\ tmpfiles' = listfile_exit(opened)
                     ELSE pc' = "7z" /\ tmpfiles' = listfile_close(opened)
    /\ UNCHANGED <<argv, args, deps, i, plan, log>>

\* cmd("7z", "a", ...), and the end of the with block.
SevenZip ==
    /\ pc = "7z"
    /\ \E rc \in ExitCodes :
        /\ log' = Append(log, Cmd("7z",
                                  <<"a", "-t7z", "-spf", "-ir@", TmpName,
                                    dest_of(deps[i])>>,
                                  <<>>, ".", rc, Len(calls)))
        /\ fs' = IF rc = 0 THEN fs \cup {dest_of(deps[i])} ELSE fs
        /\ tmpfiles' = listfile_exit(tmpfiles)
        /\ IF package_7z(rc) = Raise
           THEN pc' = "error" /\ i' = i
           ELSE pc' = "package" /\ i' = i + 1
    /\ UNCHANGED <<argv, args, deps, plan, calls, manifest, artifacts, listfile>>

Next ==
    \/ ParseArgs
    \/ Main
    \/ Pull
    \/ Git
    \/ Build
    \/ CMake
    \/ NinjaInstall
    \/ Bootstrap
    \/ Package
    \/ SevenZip

Spec == Init /\ [][Next]_vars

(***************************************************************************)
(* Helpers of the properties.                                              *)
(***************************************************************************)
IsPrefix(s, t) == Len(s) <= Len(t) /\ \A n \in 1..Len(s) : s[n] = t[n]

\* The argument lists of the processes run during call k, in order.
IssuedBy(k) ==
    LET during(e) == e.call = k
        es == SelectSeq(log, during)
    IN  [n \in 1..Len(es) |-> es[n].args]

\* Call k is over: a later call was made, or the run is at a loop head or ended.
CallOver(k) == k < Len(calls) \/ pc \in {"pull", "build", "package", "done", "error"}

\* The descriptors in the order they were first handed to a lifecycle method.
RECURSIVE Processed(_)
Processed(cs) ==
    IF cs = <<>> THEN <<>>
    ELSE LET r == Processed(SubSeq(cs, 1, Len(cs) - 1))
             d == cs[Len(cs)].dep
         IN  IF r # <<>> /\ r[Len(r)] = d THEN r ELSE Append(r, d)

Registered(name) == lower(name) \in {"ninja", "llvm"}

(***************************************************************************)
(* The properties.                                                         *)
(***************************************************************************)
C1_UpdateCmds(dep) ==
    IF dep = "Ninja"
    THEN << <<"fetch">>, <<"checkout", "master">>,
            <<"merge", "origin/master", "--ff-only">> >>
    ELSE << <<"fetch">>, <<"checkout", "main">>,
            <<"merge", "origin/main", "--ff-only">> >>

C1_CloneCmds(dep) ==
    IF dep = "Ninja"
    THEN << <<"clone", "https://github.com/ninja-build/ninja.git", "ninja/src",
              "-b", "master">> >>
    ELSE << <<"clone", "https://github.com/llvm/llvm-project.git", "llvm/src",
              "-b", "main">> >>

\* C1: one call of pull on a descriptor issues git commands of one of two
\* sequences only.  When the source directory did not exist at the call: one
\* clone of the url into the directory with -b branch, and no fetch, checkout
\* or merge.  When it existed: fetch, then checkout branch, then merge
\* origin/branch --ff-only, in that order, each at most once, and no clone; all
\* three when the call returned.
C1_FetchIssuesOneOfTwoSequences ==
    \A k \in 1..Len(calls) :
        calls[k].method = "pull" =>
            LET issued == IssuedBy(k)
                dep == calls[k].dep
            IN  IF calls[k].dir_exists
                THEN /\ IsPrefix(issued, C1_UpdateCmds(dep))
                     /\ (CallOver(k) /\ ~(k = Len(calls) /\ pc = "error"))
                            => issued = C1_UpdateCmds(dep)
                ELSE /\ IsPrefix(issued, C1_CloneCmds(dep))
                     /\ CallOver(k) => issued = C1_CloneCmds(dep)

\* C1's case: a run that updated one descriptor, an existing directory, with
\* the three commands and cloned the other with one.
C1_Witness ==
    /\ pc = "done"
    /\ Len(calls) = 2
    /\ calls[1].dir_exists /\ Len(IssuedBy(1)) = 3
    /\ ~calls[2].dir_exists /\ Len(IssuedBy(2)) = 1

\* C2: in build, a non-zero exit of cmake, of ninja or of the bootstrap script
\* ends the run in the error state at once: it is the last process run.
C2_BuildFailureAborts ==
    \A n \in 1..Len(log) :
        (log[n].prog \in {"cmake", "ninja", "python"} /\ log[n].rc # 0)
            => (n = Len(log) /\ pc = "error")

\* C3: with --config Debug --config Release every configure and build call
\* gets the configs <<Debug, Release>>; with no --config it gets <<Release>>.
C3_ConfigsPassedUnchanged ==
    \A k \in 1..Len(calls) :
        calls[k].method \in {"configure", "build"} =>
            /\ argv.configs = <<"Debug", "Release">>
                  => calls[k].configs = <<"Debug", "Release">>
            /\ argv.configs = <<>> => calls[k].configs = <<"Release">>

\* C4: a command line whose names are all spellings, in any case, of
\* registered tools is accepted, and each name resolves to its tool's class.
C4_LookupCaseInsensitive ==
    (pc # "parse_args" /\ \A k \in 1..Len(argv.tools) : Registered(argv.tools[k]))
        => /\ pc # "usage_error"
           /\ \A k \in 1..Len(argv.tools) :
                args.tools[k] = IF lower(argv.tools[k]) = "ninja"
                                THEN "Ninja" ELSE "LLVM"

C5_UnknownName == \E k \in 1..Len(argv.tools) : ~Registered(argv.tools[k])

\* C5: when a name of the command line is registered under no spelling, every
\* step ends in the usage error with nothing done: no descriptor constructed,
\* no directory or file made, no lifecycle call and no process run.
C5_UnknownToolNoSideEffect ==
    [][C5_UnknownName =>
          /\ pc' = "usage_error"
          /\ deps' = <<>> /\ calls' = <<>> /\ log' = <<>>
          /\ fs' = fs /\ tmpfiles' = {}]_vars

\* C5's case: an unknown name after a valid one, rejected.
C5_Witness ==
    /\ pc = "usage_error"
    /\ Len(argv.tools) = 2
    /\ argv.tools[1] = "llvm" /\ argv.tools[2] = "gcc"

\* C6: in package, a non-zero exit of 7z ends the run in the error state at
\* once: it is the last process run and no later descriptor is packaged.
C6_ArchiverFailureAborts ==
    \A n \in 1..Len(log) :
        (log[n].prog = "7z" /\ log[n].rc # 0)
            => (n = Len(log) /\ pc = "error" /\ log[n].call = Len(calls))

\* C7: the list file exists while the archiver is to run or running and at no
\* other time: it is there until 7z has returned, and gone when the handling
\* of the descriptor has ended, by return or by exception.
C7_ListFileRemoved ==
    /\ pc = "7z" => TmpName \in tmpfiles
    /\ pc # "7z" => tmpfiles = {}

\* C7's case: the archiver failed for one descriptor and the enumeration of
\* the next one's artifacts raised; no list file is left.
C7_Witness ==
    /\ pc = "error"
    /\ Len(calls) = 2 /\ calls[2].method = "artifacts"
    /\ Len(log) = 1 /\ log[1].prog = "7z" /\ log[1].rc # 0
    /\ tmpfiles = {}

\* C8: in pull, a non-zero exit of a git command ends the run in the error
\* state at once: it is the last process run, and no later descriptor is
\* pulled.
C8_GitFailureAbortsFetch ==
    \A n \in 1..Len(log) :
        (log[n].prog = "git" /\ log[n].rc # 0)
            => (n = Len(log) /\ pc = "error" /\ log[n].call = Len(calls))

\* C8's case: the merge of the first of two descriptors failed.
C8_Witness ==
    /\ pc = "error"
    /\ Len(deps) = 2 /\ i = 1 /\ Len(calls) = 1
    /\ Len(log) = 3 /\ log[3].args[1] = "merge" /\ log[3].rc # 0

C9_NonEmptyTrimmed(lines) ==
    LET nonempty(l) == l # <<>>
    IN  SelectSeq([k \in 1..Len(lines) |-> strip(lines[k])], nonempty)

\* C9: what LLVM.artifacts yields from a manifest is the non-empty trimmed
\* lines of the manifest in file order, all of them when the enumeration ran
\* to its end, and never the path of an empty line.
C9_ArtifactsAreNonEmptyLines ==
    (calls # <<>> /\ calls[Len(calls)].method = "artifacts"
       /\ calls[Len(calls)].dep = "LLVM" /\ manifest.exists)
        => /\ IsPrefix(artifacts, C9_NonEmptyTrimmed(manifest.lines))
           /\ pc = "7z" => artifacts = C9_NonEmptyTrimmed(manifest.lines)
           /\ \A k \in 1..Len(artifacts) : artifacts[k] # <<".">>

\* C10, as claimed: the descriptors are processed in the order of the names
\* of the command line.
C10_ProcessedInListOrder ==
    pc \notin {"parse_args", "usage_error"}
        => IsPrefix(Processed(calls), args.tools)

\* C10, amended: the descriptors of the named tools are processed one after
\* the other in the fixed order Ninja, then LLVM, each once, whatever the
\* order of the names.
C10_ProcessedInFixedOrder ==
    pc \notin {"parse_args", "usage_error"} =>
        LET named(cls) == \E k \in 1..Len(args.tools) : args.tools[k] = cls
            expected == SelectSeq(<<"Ninja", "LLVM">>, named)
        IN  /\ IsPrefix(Processed(calls), expected)
            /\ pc = "done" => Processed(calls) = expected
            /\ \A n \in 1..Len(log) : \A m \in 1..n : log[m].call <= log[n].call

\* C10's case: llvm ninja on the command line, and both were processed.
C10_Witness ==
    /\ pc = "done"
    /\ args.tools = <<"LLVM", "Ninja">>
    /\ Processed(calls) = <<"Ninja", "LLVM">>

====
